---------------------------- MODULE Spec2Model ----------------------------
(***************************************************************************)
(* Black-Scholes-Merton call value, Vega and the Newton-Raphson implied    *)
(* volatility loop of UncleBull/bsm_functions.ipynb.                       *)
(*                                                                         *)
(* Floating point numbers are modelled as fixed-point numbers with SCALE   *)
(* units per 1.0 and a finite range MaxFloat, together with the IEEE       *)
(* special values inf/-inf/nan.  Every number carries the flag np: TRUE    *)
(* for a numpy.float64 (what scipy's stats.norm.cdf returns, and whatever  *)
(* arithmetic with one produces), FALSE for a Python float.  The two       *)
(* differ where the source's operators differ: Python's float / and **     *)
(* raise ZeroDivisionError and OverflowError, numpy's return inf or nan.   *)
(* A raised exception is a value of kind "exc" that every operator passes  *)
(* on from its leftmost operand, as Python's left-to-right evaluation does.*)
(***************************************************************************)
EXTENDS Integers, Sequences, FiniteSets, TLC

\* Fixed-point resolution: units per 1.0.
SCALE == 1000
\* Largest finite magnitude, in units; beyond it a result overflows.
MaxFloat == 40000
\* Largest iteration budget of the general invocations.
MaxIt == 3
\* Default of the parameter it of bsm_call_imp_vol.
DefaultIt == 100

-----------------------------------------------------------------------------
(* Values *)

Fin(v, np) == [k |-> "fin", v |-> v, np |-> np, e |-> ""]
Inf(s, np) == [k |-> "inf", v |-> s, np |-> np, e |-> ""]
NaN(np) == [k |-> "nan", v |-> 0, np |-> np, e |-> ""]
Exc(e) == [k |-> "exc", v |-> 0, np |-> FALSE, e |-> e]
None == [k |-> "None", v |-> 0, np |-> FALSE, e |-> ""]
Unset == [k |-> "unset", v |-> 0, np |-> FALSE, e |-> ""]

IsExc(a) == a.k = "exc"
IsFin(a) == a.k = "fin"
IsZero(a) == a.k = "fin" /\ a.v = 0
\* inf, -inf or nan
NonFinite(a) == a.k \in {"inf", "nan"}
\* Python's == on two numbers: the value, whatever the float type.
NumEq(a, b) == a.k = b.k /\ a.k \in {"fin", "inf"} /\ a.v = b.v

Sign(n) == IF n < 0 THEN -1 ELSE IF n > 0 THEN 1 ELSE 0
Abs(n) == IF n < 0 THEN -n ELSE n
\* Integer quotient rounded toward zero (b # 0).
Quot(a, b) == Sign(a) * Sign(b) * (Abs(a) \div Abs(b))

\* A finite result, or the infinity it overflows to.
Norm(v, np) == IF v > MaxFloat THEN Inf(1, np)
               ELSE IF v < -MaxFloat THEN Inf(-1, np)
               ELSE Fin(v, np)

\* float(x)
Float(a) == IF IsExc(a) THEN a ELSE [a EXCEPT !.np = FALSE]

\* -a
Neg(a) == IF a.k \in {"fin", "inf"} THEN [a EXCEPT !.v = -a.v] ELSE a

\* a + b
Add(a, b) ==
  IF IsExc(a) THEN a ELSE IF IsExc(b) THEN b ELSE
  LET np == a.np \/ b.np IN
  IF a.k = "nan" \/ b.k = "nan" THEN NaN(np)
  ELSE IF a.k = "inf" /\ b.k = "inf"
       THEN IF a.v = b.v THEN Inf(a.v, np) ELSE NaN(np)
  ELSE IF a.k = "inf" THEN Inf(a.v, np)
  ELSE IF b.k = "inf" THEN Inf(b.v, np)
  ELSE Norm(a.v + b.v, np)

\* a - b
Sub(a, b) == Add(a, Neg(b))

\* a * b
Mul(a, b) ==
  IF IsExc(a) THEN a ELSE IF IsExc(b) THEN b ELSE
  LET np == a.np \/ b.np IN
  IF a.k = "nan" \/ b.k = "nan" THEN NaN(np)
  ELSE IF a.k = "inf" \/ b.k = "inf"
       THEN IF Sign(a.v) * Sign(b.v) = 0 THEN NaN(np)
            ELSE Inf(Sign(a.v) * Sign(b.v), np)
  ELSE Norm(Quot(a.v * b.v, SCALE), np)

\* A faulty Div: a zero divisor never raises, whatever the float type.
DivNeverRaises(a, b) ==
  IF IsExc(a) THEN a ELSE IF IsExc(b) THEN b ELSE
  LET np == a.np \/ b.np IN
  IF IsZero(b)
  THEN IF a.k = "nan" \/ IsZero(a) THEN NaN(np) ELSE Inf(Sign(a.v), np)
  ELSE IF a.k = "nan" \/ b.k = "nan" THEN NaN(np)
  ELSE IF a.k = "inf"
       THEN IF b.k = "inf" THEN NaN(np) ELSE Inf(a.v * Sign(b.v), np)
  ELSE IF b.k = "inf" THEN Fin(0, np)
  ELSE Norm(Quot(a.v * SCALE, b.v), np)

\* a / b with both operands Python floats: a zero divisor raises.
\* With a numpy.float64 operand: inf or nan (and a RuntimeWarning).
Div(a, b) ==
  IF IsExc(a) THEN a ELSE IF IsExc(b) THEN b ELSE
  LET np == a.np \/ b.np IN
  IF IsZero(b)
  THEN IF ~np THEN Exc("ZeroDivisionError")
       ELSE IF a.k = "nan" \/ IsZero(a) THEN NaN(np)
       ELSE Inf(Sign(a.v), np)
  ELSE IF a.k = "nan" \/ b.k = "nan" THEN NaN(np)
  ELSE IF a.k = "inf"
       THEN IF b.k = "inf" THEN NaN(np) ELSE Inf(a.v * Sign(b.v), np)
  ELSE IF b.k = "inf" THEN Fin(0, np)
  ELSE Norm(Quot(a.v * SCALE, b.v), np)

\* a ** 2: a Python float that overflows raises, a numpy.float64 gives inf.
Pow2(a) ==
  IF IsExc(a) THEN a
  ELSE IF a.k = "nan" THEN a
  ELSE IF a.k = "inf" THEN Inf(1, a.np)
  ELSE LET p == Norm(Quot(a.v * a.v, SCALE), a.np) IN
       IF p.k = "inf" /\ ~a.np THEN Exc("OverflowError") ELSE p

-----------------------------------------------------------------------------
(* math.log, math.sqrt, math.exp and scipy.stats.norm.cdf *)

Ln2 == (693147 * SCALE) \div 1000000
EulerE == (271828 * SCALE) \div 100000

\* ln of v units, in units (v > 0): halve or double into [1, 2), then
\* 2 * atanh((x - 1) / (x + 1)) by its series.
RECURSIVE LnFix(_)
LnFix(v) ==
  IF v >= 2 * SCALE THEN LnFix(v \div 2) + Ln2
  ELSE IF v < SCALE THEN LnFix(2 * v) - Ln2
  ELSE LET z == ((v - SCALE) * SCALE) \div (v + SCALE)
           z2 == (z * z) \div SCALE
           z3 == (z2 * z) \div SCALE
           z5 == (z3 * z2) \div SCALE
       IN 2 * (z + z3 \div 3 + z5 \div 5)

\* A faulty Log: the logarithm of the C library, nan or -inf where
\* math.log raises.
LogNeverRaises(x) ==
  IF IsExc(x) THEN x
  ELSE IF x.k = "nan" THEN NaN(FALSE)
  ELSE IF x.k = "inf" THEN IF x.v > 0 THEN Inf(1, FALSE) ELSE NaN(FALSE)
  ELSE IF x.v < 0 THEN NaN(FALSE)
  ELSE IF x.v = 0 THEN Inf(-1, FALSE)
  ELSE Fin(LnFix(x.v), FALSE)

\* math.log(x): a Python float; x <= 0 is a math domain error.
Log(x) ==
  IF IsExc(x) THEN x
  ELSE IF x.k = "nan" THEN NaN(FALSE)
  ELSE IF x.k = "inf" THEN IF x.v > 0 THEN Inf(1, FALSE) ELSE Exc("ValueError")
  ELSE IF x.v <= 0 THEN Exc("ValueError")
  ELSE Fin(LnFix(x.v), FALSE)

\* Largest n in lo..hi with n * n <= m (lo * lo <= m).
RECURSIVE ISqrt(_, _, _)
ISqrt(m, lo, hi) ==
  IF lo >= hi THEN lo
  ELSE LET mid == (lo + hi + 1) \div 2 IN
       IF mid * mid <= m THEN ISqrt(m, mid, hi) ELSE ISqrt(m, lo, mid - 1)

\* math.sqrt(x): a Python float; x < 0 is a math domain error.
Sqrt(x) ==
  IF IsExc(x) THEN x
  ELSE IF x.k = "nan" THEN NaN(FALSE)
  ELSE IF x.k = "inf" THEN IF x.v > 0 THEN Inf(1, FALSE) ELSE Exc("ValueError")
  ELSE IF x.v < 0 THEN Exc("ValueError")
  ELSE Fin(ISqrt(x.v * SCALE, 0, MaxFloat), FALSE)

\* e^(v units) in units, saturating just above MaxFloat: e^n by repeated
\* multiplication, the fraction by the exponential series.
RECURSIVE ExpFix(_)
ExpFix(v) ==
  IF v < 0 THEN (SCALE * SCALE) \div ExpFix(-v)
  ELSE IF v >= SCALE
       THEN LET h == ExpFix(v - SCALE) IN
            IF h > MaxFloat THEN h ELSE (h * EulerE) \div SCALE
  ELSE LET x2 == (v * v) \div SCALE
           x3 == (x2 * v) \div SCALE
           x4 == (x3 * v) \div SCALE
       IN SCALE + v + x2 \div 2 + x3 \div 6 + x4 \div 24

\* math.exp(x): a Python float; an overflow is a math range error.
Exp(x) ==
  IF IsExc(x) THEN x
  ELSE IF x.k = "nan" THEN NaN(FALSE)
  ELSE IF x.k = "inf" THEN IF x.v > 0 THEN Inf(1, FALSE) ELSE Fin(0, FALSE)
  ELSE LET y == ExpFix(x.v) IN
       IF y > MaxFloat THEN Exc("OverflowError") ELSE Fin(y, FALSE)

\* The standard normal distribution function at 0, 0.5, 1, ..., 4, in 1/10000.
CdfTable == <<5000, 6915, 8413, 9332, 9772, 9938, 9987, 9998, 10000>>

\* The distribution function at v units, in units: the table, interpolated;
\* below the resolution it is 0, as it underflows to 0.0 in the source.
RECURSIVE CdfFix(_)
CdfFix(v) ==
  IF v < 0 THEN SCALE - CdfFix(-v)
  ELSE LET h == SCALE \div 2
           n == v \div h
       IN IF n + 2 > Len(CdfTable) THEN SCALE
          ELSE LET lo == CdfTable[n + 1]
                   hi == CdfTable[n + 2]
               IN ((lo + ((hi - lo) * (v - n * h)) \div h) * SCALE) \div 10000

\* stats.norm.cdf(x, 0.0, 1.0): a numpy.float64; never raises.
Cdf(x) ==
  IF IsExc(x) THEN x
  ELSE IF x.k = "nan" THEN NaN(TRUE)
  ELSE IF x.k = "inf" THEN IF x.v > 0 THEN Fin(SCALE, TRUE) ELSE Fin(0, TRUE)
  ELSE Fin(CdfFix(x.v), TRUE)

-----------------------------------------------------------------------------
(* The three functions of bsm_functions.ipynb *)

\* The literal 0.5
Half == Fin(SCALE \div 2, FALSE)

\* d1 of bsm_call_value
bsm_call_value_d1(S0_, K_, T_, r_, sigma) ==
  Div(Add(Log(Div(Float(S0_), K_)), Mul(Add(r_, Mul(Half, Pow2(sigma))), T_)),
      Mul(sigma, Sqrt(T_)))

\* d2 of bsm_call_value
bsm_call_value_d2(S0_, K_, T_, r_, sigma) ==
  Div(Add(Log(Div(Float(S0_), K_)), Mul(Sub(r_, Mul(Half, Pow2(sigma))), T_)),
      Mul(sigma, Sqrt(T_)))

bsm_call_value(S0_, K_, T_, r_, sigma) ==
  LET d1 == bsm_call_value_d1(S0_, K_, T_, r_, sigma)
      d2 == bsm_call_value_d2(S0_, K_, T_, r_, sigma)
  IN IF IsExc(d1) THEN d1 ELSE IF IsExc(d2) THEN d2 ELSE
     Sub(Mul(Float(S0_), Cdf(d1)),
         Mul(Mul(K_, Exp(Mul(Neg(r_), T_))), Cdf(d2)))

\* d1 of bsm_vega: only the (r + 0.5 * sigma ** 2) * T term is divided.
bsm_vega_d1(S0_, K_, T_, r_, sigma) ==
  Add(Log(Div(Float(S0_), K_)),
      Div(Mul(Add(r_, Mul(Half, Pow2(sigma))), T_), Mul(sigma, Sqrt(T_))))

bsm_vega(S0_, K_, T_, r_, sigma) ==
  LET d1 == bsm_vega_d1(S0_, K_, T_, r_, sigma)
  IN IF IsExc(d1) THEN d1 ELSE
     Mul(Mul(Float(S0_), Cdf(d1)), Sqrt(T_))

\* A faulty Update: bsm_vega is evaluated at another sigma than
\* bsm_call_value.
UpdateVegaElsewhere(S0_, K_, T_, r_, C0_, sigma) ==
  Sub(sigma, Div(Sub(bsm_call_value(S0_, K_, T_, r_, sigma), C0_),
                 bsm_vega(S0_, K_, T_, r_, Add(sigma, Fin(SCALE \div 10, FALSE)))))

\* A faulty Update: the target price C0 is not subtracted.
UpdateNoTarget(S0_, K_, T_, r_, C0_, sigma) ==
  Sub(sigma, Div(bsm_call_value(S0_, K_, T_, r_, sigma),
                 bsm_vega(S0_, K_, T_, r_, sigma)))

\* The right-hand side of the loop body: the new sigma_est, or the exception
\* the statement raises.
Update(S0_, K_, T_, r_, C0_, sigma) ==
  Sub(sigma, Div(Sub(bsm_call_value(S0_, K_, T_, r_, sigma), C0_),
                 bsm_vega(S0_, K_, T_, r_, sigma)))

\* A faulty LoopContinues: the loop stops one iteration early.
LoopStopsEarly(i_, it_) == i_ < it_ - 1

\* for i in range(it): another iteration follows i completed ones.
LoopContinues(i_, it_) == i_ < it_

\* A faulty Local: the name is one module-level variable of all invocations.
Shared(f, c) == f[CHOOSE d \in DOMAIN f : TRUE]

\* A name of the function body is the invocation's own local variable.
Local(f, c) == f[c]

-----------------------------------------------------------------------------
(* State: one frame of locals per invocation c *)

VARIABLES S0, K, T, r, C0, sigma_est, it, i, pc, op, result, sigma_0, vega_zero

\* sigma_est is also the argument sigma of a direct call of bsm_call_value
\* or bsm_vega.  i counts the completed iterations of the loop.  pc is
\* "idle" before the call, "loop" inside bsm_call_imp_vol, "done" after a
\* return and "raised" after an exception left the function; result is the
\* value returned or the exception.  sigma_0 and vega_zero are history
\* variables: the sigma_est the caller passed, and whether bsm_vega has
\* evaluated to zero in some iteration.
vars == <<S0, K, T, r, C0, sigma_est, it, i, pc, op, result, sigma_0, vega_zero>>

Calls == DOMAIN pc

Py(n) == Fin(n, FALSE)

\* n / d of 1.0 as a Python float
Frac(n, d) == Py((n * SCALE) \div d)

SpotValues == {Py(-SCALE), Py(0), Py(SCALE), Py(2 * SCALE)}
StrikeValues == {Py(-SCALE), Py(0), Py(SCALE), Py(2 * SCALE)}
MaturityValues == {Py(0), Frac(1, 4), Py(SCALE)}
RateValues == {Frac(5, 100)}
SigmaValues == {Py(0), Frac(-1, 100), Frac(16, 100), Frac(2, 10), Frac(3, 10)}
SigmaTrueValues == {Frac(2, 10), Frac(3, 10), Frac(5, 10)}

\* Market prices: fixed ones and those bsm_call_value gives for a known sigma.
PriceValues(S0_, K_, T_, r_) ==
  {Py(0), Frac(1, 10)} \cup
  {p \in {bsm_call_value(S0_, K_, T_, r_, s) : s \in {Frac(2, 10)}} : IsFin(p)}

Frame(S0_, K_, T_, r_, C0_, sigma, it_) ==
  [S0 |-> S0_, K |-> K_, T |-> T_, r |-> r_, C0 |-> C0_, sigma_est |-> sigma,
   it |-> it_]

\* Arbitrary arguments, degenerate ones included.
GeneralFrames ==
  {Frame(a, b, c, d, e, f, g) :
     a \in SpotValues, b \in StrikeValues, c \in MaturityValues,
     d \in RateValues,
     e \in UNION {PriceValues(a1, b1, c1, d1) :
                    a1 \in SpotValues, b1 \in StrikeValues,
                    c1 \in MaturityValues, d1 \in RateValues},
     f \in SigmaValues, g \in 0..MaxIt}

\* The round trip: C0 is the price at a known sigma_true, the first estimate
\* is 0.8 * sigma_true and it has its default.
Estimate(st) == Mul(Frac(8, 10), st)

RoundTripFrames ==
  {Frame(a, b, Py(SCALE), d, bsm_call_value(a, b, Py(SCALE), d, st),
         Estimate(st), DefaultIt) :
     a \in {Py(SCALE), Py(2 * SCALE)}, b \in {Py(SCALE), Py(2 * SCALE)},
     d \in RateValues, st \in SigmaTrueValues}

\* The frames of the interleaved invocations.
SmallFrames ==
  {Frame(Py(SCALE), b, Py(SCALE), Frac(5, 100), e, f, g) :
     b \in {Py(SCALE), Py(2 * SCALE)}, e \in {Frac(1, 10)},
     f \in {Py(0), Frac(2, 10), Frac(3, 10)}, g \in 1..(MaxIt - 1)}

InitWith(ids, frames) ==
  \E fr \in [ids -> frames] :
    /\ S0 = [c \in ids |-> fr[c].S0]
    /\ K = [c \in ids |-> fr[c].K]
    /\ T = [c \in ids |-> fr[c].T]
    /\ r = [c \in ids |-> fr[c].r]
    /\ C0 = [c \in ids |-> fr[c].C0]
    /\ sigma_est = [c \in ids |-> fr[c].sigma_est]
    /\ it = [c \in ids |-> fr[c].it]
    /\ i = [c \in ids |-> 0]
    /\ pc = [c \in ids |-> "idle"]
    /\ op = [c \in ids |-> "none"]
    /\ result = [c \in ids |-> Unset]
    /\ sigma_0 = [c \in ids |-> fr[c].sigma_est]
    /\ vega_zero = [c \in ids |-> FALSE]

Init == InitWith({1}, GeneralFrames \cup RoundTripFrames)

InitConcurrent == InitWith({1, 2}, SmallFrames)

\* Leave the function with value v, or with the exception v.
Finish(c, v) ==
  /\ pc' = [pc EXCEPT ![c] = IF IsExc(v) THEN "raised" ELSE "done"]
  /\ result' = [result EXCEPT ![c] = v]

\* A caller evaluates bsm_call_value(S0, K, T, r, sigma).
call_bsm_call_value(c) ==
  /\ pc[c] = "idle"
  /\ op' = [op EXCEPT ![c] = "bsm_call_value"]
  /\ Finish(c, bsm_call_value(S0[c], K[c], T[c], r[c], sigma_est[c]))
  /\ UNCHANGED <<S0, K, T, r, C0, sigma_est, it, i, sigma_0, vega_zero>>

\* A caller evaluates bsm_vega(S0, K, T, r, sigma).
call_bsm_vega(c) ==
  /\ pc[c] = "idle"
  /\ op' = [op EXCEPT ![c] = "bsm_vega"]
  /\ Finish(c, bsm_vega(S0[c], K[c], T[c], r[c], sigma_est[c]))
  /\ UNCHANGED <<S0, K, T, r, C0, sigma_est, it, i, sigma_0, vega_zero>>

\* A caller enters bsm_call_imp_vol(S0, K, T, r, C0, sigma_est, it).
call_bsm_call_imp_vol(c) ==
  /\ pc[c] = "idle"
  /\ op' = [op EXCEPT ![c] = "bsm_call_imp_vol"]
  /\ pc' = [pc EXCEPT ![c] = "loop"]
  /\ UNCHANGED <<S0, K, T, r, C0, sigma_est, it, i, result, sigma_0, vega_zero>>

\* One pass of the loop body, sigma_est -= (value - C0) / vega: the
\* assignment, or the exception leaving bsm_call_imp_vol.
bsm_call_imp_vol_step(c) ==
  /\ pc[c] = "loop"
  /\ LoopContinues(i[c], it[c])
  /\ LET s == Local(sigma_est, c)
         value == bsm_call_value(S0[c], K[c], T[c], r[c], s)
         vega == IF IsExc(value) THEN value
                 ELSE bsm_vega(S0[c], K[c], T[c], r[c], s)
         new == Update(S0[c], K[c], T[c], r[c], C0[c], s)
     IN /\ vega_zero' = [vega_zero EXCEPT ![c] = @ \/ IsZero(vega)]
        /\ IF IsExc(new)
           THEN /\ Finish(c, new)
                /\ UNCHANGED <<sigma_est, i>>
           ELSE /\ sigma_est' = [sigma_est EXCEPT ![c] = new]
                /\ i' = [i EXCEPT ![c] = @ + 1]
                /\ UNCHANGED <<pc, result>>
  /\ UNCHANGED <<S0, K, T, r, C0, it, op, sigma_0>>

\* The loop is over and the function body ends: there is no return
\* statement, so the call evaluates to None.
bsm_call_imp_vol_return(c) ==
  /\ pc[c] = "loop"
  /\ ~LoopContinues(i[c], it[c])
  /\ Finish(c, None)
  /\ UNCHANGED <<S0, K, T, r, C0, sigma_est, it, i, op, sigma_0, vega_zero>>

Next ==
  \E c \in Calls :
    \/ call_bsm_call_value(c)
    \/ call_bsm_vega(c)
    \/ call_bsm_call_imp_vol(c)
    \/ bsm_call_imp_vol_step(c)
    \/ bsm_call_imp_vol_return(c)

Spec == Init /\ [][Next]_vars

SpecConcurrent == InitConcurrent /\ [][Next]_vars

-----------------------------------------------------------------------------
(* Properties *)

IsImpVol(c) == op[c] = "bsm_call_imp_vol"
Positive(a) == IsFin(a) /\ a.v > 0

\* C1: bsm_call_imp_vol returns the final sigma_est, the estimate after the
\* last update step (the initial one when no step runs).
C1_ReturnsFinalEstimate ==
  \A c \in Calls :
    (IsImpVol(c) /\ pc[c] = "done") => result[c] = sigma_est[c]

\* C2: bsm_call_imp_vol performs exactly it update steps before it
\* finishes, for every input: the loop never ends early.
C2_ExactlyItSteps ==
  \A c \in Calls :
    (IsImpVol(c) /\ pc[c] \in {"done", "raised"}) => i[c] = it[c]

\* C2 as amended: the loop never runs more than it steps, a call that
\* returns has performed exactly it steps, and the loop ends before it
\* steps only by an exception that an update step raises.
C2_ExactlyItStepsUnlessRaised ==
  \A c \in Calls :
    IsImpVol(c) =>
      /\ i[c] <= it[c]
      /\ pc[c] = "done" => i[c] = it[c]
      /\ pc[c] = "raised" => (i[c] < it[c] /\ IsExc(result[c]))

C2_Witness ==
  \E c \in Calls :
    /\ IsImpVol(c) /\ pc[c] = "done"
    /\ it[c] = DefaultIt /\ i[c] = DefaultIt
    /\ NumEq(Update(S0[c], K[c], T[c], r[c], C0[c], sigma_est[c]), sigma_est[c])

\* T = 0 or sigma = 0, the other arguments positive Python floats.
DegenerateDivisor(c) ==
  /\ Positive(S0[c]) /\ Positive(K[c]) /\ Positive(r[c])
  /\ IsFin(T[c]) /\ T[c].v >= 0 /\ IsFin(sigma_0[c]) /\ sigma_0[c].v >= 0
  /\ (IsZero(T[c]) \/ IsZero(sigma_0[c]))
  /\ ~T[c].np /\ ~sigma_0[c].np

\* C3: bsm_call_value with T = 0 or sigma = 0 completes normally and returns
\* an infinite or NaN value; the division by zero raises no error.
C3_DegenerateReturnsNonFinite ==
  \A c \in Calls :
    (op[c] = "bsm_call_value" /\ pc[c] # "idle" /\ DegenerateDivisor(c)) =>
      (pc[c] = "done" /\ NonFinite(result[c]))

\* C3 as amended: bsm_call_value with Python float arguments and T = 0 or
\* sigma = 0 raises ZeroDivisionError at the division by sigma * sqrt(T)
\* and returns no value.
C3_DegenerateRaises ==
  \A c \in Calls :
    (op[c] = "bsm_call_value" /\ pc[c] # "idle" /\ DegenerateDivisor(c)) =>
      (pc[c] = "raised" /\ result[c] = Exc("ZeroDivisionError"))

C3_Witness ==
  \E c \in Calls :
    /\ op[c] = "bsm_call_value" /\ pc[c] = "raised" /\ DegenerateDivisor(c)
    /\ IsZero(T[c]) /\ Positive(sigma_0[c])

\* The update steps of the loop after bsm_vega evaluated to zero: sigma_est
\* is inf or nan from then on and no exception ends the loop.
VegaZeroPropagates(c) ==
  (IsImpVol(c) /\ vega_zero[c]) =>
    (NonFinite(sigma_est[c]) /\ pc[c] # "raised")

\* C4: if bsm_vega evaluates to zero at some iteration, sigma_est becomes and
\* stays inf or nan without an exception, the loop runs to the end and the
\* value returned is NaN/Inf.
C4_VegaZeroReturnsNonFinite ==
  \A c \in Calls :
    /\ VegaZeroPropagates(c)
    /\ (IsImpVol(c) /\ vega_zero[c] /\ pc[c] = "done") => NonFinite(result[c])

\* The ratio S0 / K is zero or negative (K is not zero).
NonPositiveRatio(c) ==
  LET q == Div(Float(S0[c]), K[c]) IN
  ~IsZero(K[c]) /\ IsFin(q) /\ q.v <= 0

\* C5: bsm_call_value and bsm_vega with a non-positive S0 / K ratio complete
\* without an exception and return NaN.
C5_LogOfNonPositiveReturnsNaN ==
  \A c \in Calls :
    (op[c] \in {"bsm_call_value", "bsm_vega"} /\ pc[c] # "idle"
       /\ NonPositiveRatio(c)) =>
      (pc[c] = "done" /\ NonFinite(result[c]))

\* C5 as amended: bsm_call_value and bsm_vega with a non-positive S0 / K
\* ratio do not complete: math.log raises ValueError and nothing is returned.
C5_LogOfNonPositiveRaises ==
  \A c \in Calls :
    (op[c] \in {"bsm_call_value", "bsm_vega"} /\ pc[c] # "idle"
       /\ NonPositiveRatio(c)) =>
      (pc[c] = "raised" /\ result[c] = Exc("ValueError"))

C5_Witness ==
  \E c \in Calls :
    /\ op[c] = "bsm_vega" /\ pc[c] = "raised" /\ NonPositiveRatio(c)
    /\ Positive(S0[c]) /\ K[c].v < 0 /\ Positive(T[c]) /\ Positive(sigma_0[c])

ValidArguments(c) ==
  Positive(S0[c]) /\ Positive(K[c]) /\ Positive(T[c]) /\ Positive(sigma_0[c])

\* C6: for valid arguments the d1 that bsm_vega computes is the d1 that
\* bsm_call_value computes (bsm_vega being the derivative of bsm_call_value
\* with respect to sigma).
C6_VegaUsesTheSameD1 ==
  \A c \in Calls :
    (op[c] = "bsm_vega" /\ pc[c] = "done" /\ ValidArguments(c)) =>
      NumEq(bsm_vega_d1(S0[c], K[c], T[c], r[c], sigma_0[c]),
            bsm_call_value_d1(S0[c], K[c], T[c], r[c], sigma_0[c]))

\* 1e-4, in units.
Tolerance == SCALE \div 10000

\* The call is the round trip for sigma_true = st.
IsRoundTrip(c, st) ==
  /\ ValidArguments(c)
  /\ it[c] = DefaultIt
  /\ sigma_0[c] = Estimate(st)
  /\ C0[c] = bsm_call_value(S0[c], K[c], T[c], r[c], st)

\* C7: with C0 the price at sigma_true, bsm_call_imp_vol started at
\* 0.8 * sigma_true with it = 100 returns a value within 1e-4 of sigma_true.
C7_RoundTrip ==
  \A c \in Calls : \A st \in SigmaTrueValues :
    (IsImpVol(c) /\ pc[c] = "done" /\ IsRoundTrip(c, st)) =>
      (IsFin(result[c]) /\ Abs(result[c].v - st.v) <= Tolerance)

\* sigma_est after n update steps of an invocation running alone, or the
\* exception that ends it.
RECURSIVE Alone(_, _, _, _, _, _, _)
Alone(S0_, K_, T_, r_, C0_, sigma, n) ==
  IF n = 0 THEN sigma
  ELSE LET s == Alone(S0_, K_, T_, r_, C0_, sigma, n - 1) IN
       IF IsExc(s) THEN s ELSE Update(S0_, K_, T_, r_, C0_, s)

\* Where an invocation of bsm_call_imp_vol running alone ends: the steps
\* completed, the last sigma_est and the outcome.
RECURSIVE AloneEnd(_, _, _, _, _, _, _, _)
AloneEnd(S0_, K_, T_, r_, C0_, sigma, n, it_) ==
  IF n >= it_ THEN [i |-> n, sigma_est |-> sigma, result |-> None]
  ELSE LET s == Update(S0_, K_, T_, r_, C0_, sigma) IN
       IF IsExc(s) THEN [i |-> n, sigma_est |-> sigma, result |-> s]
       ELSE AloneEnd(S0_, K_, T_, r_, C0_, s, n + 1, it_)

Finished(c) == pc[c] \in {"done", "raised"}

SameInputs(c, d) ==
  /\ S0[c] = S0[d] /\ K[c] = K[d] /\ T[c] = T[d] /\ r[c] = r[d]
  /\ C0[c] = C0[d] /\ sigma_0[c] = sigma_0[d] /\ it[c] = it[d] /\ op[c] = op[d]

\* C8: interleaved invocations share no state: each one is, at every step,
\* where it would be running alone, it ends with the result it would produce
\* alone, and two invocations with identical inputs end alike.
C8_InvocationsIndependent ==
  \A c \in Calls :
    /\ IsImpVol(c) =>
         /\ sigma_est[c] = Alone(S0[c], K[c], T[c], r[c], C0[c], sigma_0[c], i[c])
         /\ Finished(c) =>
              [i |-> i[c], sigma_est |-> sigma_est[c], result |-> result[c]]
                = AloneEnd(S0[c], K[c], T[c], r[c], C0[c], sigma_0[c], 0, it[c])
    /\ (op[c] = "bsm_call_value" /\ Finished(c)) =>
         result[c] = bsm_call_value(S0[c], K[c], T[c], r[c], sigma_0[c])
    /\ (op[c] = "bsm_vega" /\ Finished(c)) =>
         result[c] = bsm_vega(S0[c], K[c], T[c], r[c], sigma_0[c])
    /\ \A d \in Calls :
         (SameInputs(c, d) /\ Finished(c) /\ Finished(d)) =>
           (result[c] = result[d] /\ sigma_est[c] = sigma_est[d])

C8_Witness ==
  \E c, d \in Calls :
    /\ c # d /\ IsImpVol(c) /\ IsImpVol(d)
    /\ ~SameInputs(c, d)
    /\ pc[c] = "loop" /\ pc[d] = "loop" /\ i[c] = 1 /\ i[d] = 1
    /\ it[c] > 1 /\ it[d] > 1
    /\ ~NumEq(sigma_est[c], sigma_est[d])

\* C9: an update step changes only sigma_est, by
\* sigma_est - (value(sigma_est) - C0) / vega(sigma_est) with both functions
\* evaluated at the sigma_est before the step; S0, K, T, r, C0 and it keep
\* their values.
C9_StepChangesOnlySigmaEst ==
  [][\A c \in Calls :
       /\ (pc[c] = "loop" /\ i'[c] = i[c] + 1) =>
            sigma_est'[c] =
              Sub(sigma_est[c],
                  Div(Sub(bsm_call_value(S0[c], K[c], T[c], r[c], sigma_est[c]),
                          C0[c]),
                      bsm_vega(S0[c], K[c], T[c], r[c], sigma_est[c])))
       /\ S0'[c] = S0[c] /\ K'[c] = K[c] /\ T'[c] = T[c] /\ r'[c] = r[c]
       /\ C0'[c] = C0[c] /\ it'[c] = it[c]]_vars

C9_Witness ==
  \E c \in Calls :
    /\ IsImpVol(c) /\ i[c] = MaxIt /\ ValidArguments(c)
    /\ IsFin(sigma_est[c]) /\ ~NumEq(sigma_est[c], sigma_0[c])

\* bsm_call_value at sigma equals C0 and bsm_vega there is finite and not
\* zero.
IsRoot(S0_, K_, T_, r_, C0_, sigma) ==
  /\ NumEq(bsm_call_value(S0_, K_, T_, r_, sigma), C0_)
  /\ IsFin(bsm_vega(S0_, K_, T_, r_, sigma))
  /\ ~IsZero(bsm_vega(S0_, K_, T_, r_, sigma))

AtRoot(c) == IsRoot(S0[c], K[c], T[c], r[c], C0[c], sigma_est[c])

\* C10: once bsm_call_value equals C0 at sigma_est with bsm_vega finite and
\* non-zero, the update leaves sigma_est unchanged, and so does every later
\* one up to the end of the loop.
C10_FixedPointStable ==
  [][\A c \in Calls :
       (IsImpVol(c) /\ pc[c] = "loop" /\ AtRoot(c)) =>
         /\ NumEq(sigma_est'[c], sigma_est[c])
         /\ pc'[c] # "raised"
         /\ IsRoot(S0'[c], K'[c], T'[c], r'[c], C0'[c], sigma_est'[c])]_vars

C10_Witness ==
  \E c \in Calls :
    /\ IsImpVol(c) /\ pc[c] = "done" /\ i[c] = MaxIt /\ AtRoot(c)
    /\ NumEq(sigma_est[c], sigma_0[c])

=============================================================================
